---- MODULE Spec2Model ----
(***************************************************************************)
(* A model of tools/glb_projection.py: the symmetric-face matcher          *)
(* (find_symmetric_uv_pairs), the projector (project_and_normalize), the   *)
(* software rasterizer (rasterize) and the control flow of main.           *)
(*                                                                         *)
(* Arithmetic is exact.  Mesh coordinates are integers that are multiples  *)
(* of 3, so that a face centroid (the mean of three vertices) is an        *)
(* integer.  Image-space quantities are rationals kept as integer          *)
(* numerators over a common positive denominator.  numpy indices are       *)
(* 0-based; sequences here are 1-based, so face fi of the code is face     *)
(* fi + 1 here, while the batch offset i keeps the code's value.           *)
(***************************************************************************)
EXTENDS Integers, Sequences, FiniteSets, TLC

VARIABLES
    pc,          \* position of the running function
    vertices,    \* mesh.vertices: sequence of 3D points
    faces,       \* mesh.faces: sequence of vertex-index triples
    uvs,         \* per-vertex UV coordinates
    \* find_symmetric_uv_pairs
    sym_axis,    \* "yz" | "xz" | "xy"
    tol,         \* tolerance
    chunk,       \* batch size
    used,        \* used mark per face
    pairs,       \* emitted {"source","target"} entries
    i,           \* batch offset (0-based, as in the code)
    bi,          \* position inside the batch (1-based)
    dist,        \* the batch's distance matrix, updated in place
    matched,     \* history: the face pairs <<fi, j>> emitted so far
    \* project_and_normalize / rasterize
    axis,        \* "front" | "side" | "top"
    img_size,
    verts2d,     \* sequence of <<x, y>> numerators over den
    den,         \* common denominator of verts2d
    fi,          \* index of the next face to rasterize (1-based)
    uv_buf,      \* pixel -> <<u, v>>, each a rational <<num, den>> or NaN
    coverage,    \* pixel -> BOOLEAN
    \* main
    path_exists, \* os.path.exists(args.model)
    load_ok,     \* load_glb returns (TRUE) or raises (FALSE)
    symmetry,    \* args.symmetry
    written,     \* output files written so far
    exit_status, \* "running" | 0 | 1
    reported     \* a diagnostic was printed / raised

vars == <<pc, vertices, faces, uvs, sym_axis, tol, chunk, used, pairs, i, bi,
          dist, matched, axis, img_size, verts2d, den, fi, uv_buf, coverage,
          path_exists, load_ok, symmetry, written, exit_status, reported>>

symVars == <<sym_axis, tol, chunk, used, pairs, i, bi, dist, matched>>
rasterVars == <<axis, img_size, verts2d, den, fi, uv_buf, coverage>>
mainVars == <<path_exists, load_ok, symmetry, written, exit_status, reported>>

-----------------------------------------------------------------------------
(* Bounds of the model *)

MaxFaces == 4       \* faces of a mesh given to find_symmetric_uv_pairs
MaxTol == 2         \* largest tolerance tried
MaxChunk == 2       \* largest batch size tried

-----------------------------------------------------------------------------
(* Helpers *)

Abs(x) == IF x < 0 THEN -x ELSE x

Max2(a, b) == IF a >= b THEN a ELSE b

Min2(a, b) == IF a <= b THEN a ELSE b

\* np.inf, as written into the distance matrix
Inf == 1000000

-----------------------------------------------------------------------------
(* find_symmetric_uv_pairs *)

\* SYMMETRY_FLIP: the coordinate negated by the mirror (1-based)
SYMMETRY_FLIP(a) == CASE a = "yz" -> 1 [] a = "xz" -> 2 [] a = "xy" -> 3

\* The meshes given to the matcher are built over these vertices: a kite in
\* the plane z = 0, symmetric about both the yz and the xz plane.
SymVerts == << <<-6, 0, 0>>, <<6, 0, 0>>, <<0, 3, 0>>, <<0, -3, 0>> >>

SymUVs == << <<0, 0>>, <<1, 0>>, <<0, 1>>, <<1, 1>> >>

SymFaceChoices == { <<1, 2, 3>>, <<1, 2, 4>>, <<1, 3, 4>>, <<2, 3, 4>> }

\* centroids = verts[faces].mean(axis=1)
Centroid(vs, f) ==
    [k \in 1..3 |-> (vs[f[1]][k] + vs[f[2]][k] + vs[f[3]][k]) \div 3]

\* mirror = centroids.copy(); mirror[:, flip_idx] *= -1
Mirror(c, flip) == [k \in 1..3 |-> IF k = flip THEN -c[k] ELSE c[k]]

\* np.abs(diff).max(axis=2): Chebyshev distance
Chebyshev(a, b) ==
    Max2(Abs(a[1] - b[1]), Max2(Abs(a[2] - b[2]), Abs(a[3] - b[3])))

centroids == [f \in 1..Len(faces) |-> Centroid(vertices, faces[f])]

mirror == [f \in 1..Len(faces) |-> Mirror(centroids[f], SYMMETRY_FLIP(sym_axis))]

\* the mirror distance of face a to face b
MirrorDist(a, b) == Chebyshev(centroids[b], mirror[a])

WrongBatchDist(off) ==
    [b \in 1..Min2(chunk, Len(faces) - off) |->
        [j \in 1..Len(faces) |-> Chebyshev(centroids[j], mirror[b])]]

\* batch_mirror = mirror[i:i + chunk]; diff = ...; dist = np.abs(diff).max(axis=2)
BatchDist(off) ==
    [b \in 1..Min2(chunk, Len(faces) - off) |->
        [j \in 1..Len(faces) |-> Chebyshev(centroids[j], mirror[off + b])]]

MaskRowSelfOnly(row, f, u) ==
    [j \in DOMAIN row |-> IF j = f THEN Inf ELSE row[j]]

MaskRowUsedOnly(row, f, u) ==
    [j \in DOMAIN row |-> IF u[j] THEN Inf ELSE row[j]]

\* dist[bi, fi] = np.inf; dist[bi, used] = np.inf
MaskRow(row, f, u) ==
    [j \in DOMAIN row |-> IF j = f \/ u[j] THEN Inf ELSE row[j]]

\* dist[bi].argmin(): the first index holding the least value
Argmin(row) ==
    CHOOSE j \in DOMAIN row :
        /\ \A k \in DOMAIN row : row[j] <= row[k]
        /\ \A k \in DOMAIN row : k < j => row[k] > row[j]

RejectsAtTol(d, t) == d >= t

\* if dist[bi, j] > tol: continue
Rejects(d, t) == d > t

MarkSourceOnly(u, f, j) == [u EXCEPT ![f] = TRUE]

\* used[fi] = True; used[j] = True
MarkUsed(u, f, j) == [u EXCEPT ![f] = TRUE, ![j] = TRUE]

\* for va, vb in zip(faces[fi], faces[j]): pairs.append({...})
UVEntries(f, j) ==
    [k \in 1..3 |-> [source |-> uvs[faces[f][k]], target |-> uvs[faces[j][k]]]]

SymIdle ==
    /\ sym_axis = "yz" /\ tol = 0 /\ chunk = 1 /\ used = <<>> /\ pairs = <<>>
    /\ i = 0 /\ bi = 0 /\ dist = <<>> /\ matched = <<>>

RasterIdle ==
    /\ axis = "front" /\ img_size = 0 /\ verts2d = <<>> /\ den = 1 /\ fi = 0
    /\ uv_buf = <<>> /\ coverage = <<>>

MainIdle ==
    /\ path_exists = TRUE /\ load_ok = TRUE /\ symmetry = "none"
    /\ written = {} /\ exit_status = "running" /\ reported = FALSE

\* State on entry to find_symmetric_uv_pairs, up to the first batch
InitSym ==
    /\ pc = "batch"
    /\ vertices = SymVerts
    /\ uvs = SymUVs
    /\ \E n \in 1..MaxFaces : faces \in [1..n -> SymFaceChoices]
    /\ sym_axis \in {"yz", "xz", "xy"}
    /\ tol \in 0..MaxTol
    /\ chunk \in 1..MaxChunk
    /\ used = [f \in 1..Len(faces) |-> FALSE]
    /\ pairs = <<>>
    /\ matched = <<>>
    /\ i = 0
    /\ bi = 0
    /\ dist = <<>>
    /\ RasterIdle
    /\ MainIdle

\* for i in range(0, len(faces), chunk): build the batch's distance matrix
BatchStart ==
    /\ pc = "batch"
    /\ i < Len(faces)
    /\ dist' = BatchDist(i)
    /\ bi' = 1
    /\ pc' = "visit"
    /\ UNCHANGED <<vertices, faces, uvs, sym_axis, tol, chunk, used, pairs, i, matched>>
    /\ UNCHANGED rasterVars
    /\ UNCHANGED mainVars

\* one iteration of "for bi in range(len(batch_mirror))"
Visit ==
    /\ pc = "visit"
    /\ bi <= Len(dist)
    /\ LET f == i + bi
           row == MaskRow(dist[bi], f, used)
           j == Argmin(row)
       IN  IF used[f]
           THEN UNCHANGED <<used, pairs, matched, dist>>
           ELSE /\ dist' = [dist EXCEPT ![bi] = row]
                /\ IF Rejects(row[j], tol)
                   THEN UNCHANGED <<used, pairs, matched>>
                   ELSE /\ used' = MarkUsed(used, f, j)
                        /\ pairs' = pairs \o UVEntries(f, j)
                        /\ matched' = Append(matched, <<f, j>>)
    /\ bi' = bi + 1
    /\ UNCHANGED <<pc, vertices, faces, uvs, sym_axis, tol, chunk, i>>
    /\ UNCHANGED rasterVars
    /\ UNCHANGED mainVars

\* the inner loop is exhausted: the outer loop advances by chunk
BatchEnd ==
    /\ pc = "visit"
    /\ bi > Len(dist)
    /\ i' = i + chunk
    /\ pc' = "batch"
    /\ UNCHANGED <<vertices, faces, uvs, sym_axis, tol, chunk, used, pairs, bi, dist, matched>>
    /\ UNCHANGED rasterVars
    /\ UNCHANGED mainVars

\* the outer loop is exhausted: return pairs
SymReturn ==
    /\ pc = "batch"
    /\ i >= Len(faces)
    /\ pc' = "sym_done"
    /\ UNCHANGED <<vertices, faces, uvs>>
    /\ UNCHANGED symVars
    /\ UNCHANGED rasterVars
    /\ UNCHANGED mainVars

NextSym == BatchStart \/ Visit \/ BatchEnd \/ SymReturn

SpecSym == InitSym /\ [][NextSym]_vars

-----------------------------------------------------------------------------
(* project_and_normalize *)

\* padding_ratio = 0.06, as the fraction PadNum / PadDen
PadNum == 6

PadDen == 100

\* AXIS_MAP: the two coordinates kept by the projection (1-based)
AXIS_MAP(a) ==
    CASE a = "front" -> <<1, 2>> [] a = "side" -> <<3, 2>> [] a = "top" -> <<1, 3>>

\* pts2d = vertices[:, [xi, yi]]
pts2d ==
    [v \in DOMAIN vertices |->
        <<vertices[v][AXIS_MAP(axis)[1]], vertices[v][AXIS_MAP(axis)[2]]>>]

\* mn, mx = pts2d.min(axis=0), pts2d.max(axis=0)
ColMin(pts, k) == CHOOSE m \in {pts[v][k] : v \in DOMAIN pts} : \A v \in DOMAIN pts : m <= pts[v][k]

ColMax(pts, k) == CHOOSE m \in {pts[v][k] : v \in DOMAIN pts} : \A v \in DOMAIN pts : m >= pts[v][k]

\* rng = mx - mn
rng(k) == ColMax(pts2d, k) - ColMin(pts2d, k)

\* max_range = rng.max(); if max_range < 1e-9: max_range = 1.0
\* (coordinates are integers here, so max_range < 1e-9 is max_range = 0)
max_range == IF Max2(rng(1), rng(2)) = 0 THEN 1 ELSE Max2(rng(1), rng(2))

\* Everything below is a numerator over ProjDen = 2 * PadDen * max_range:
\*   pad    = img_size * PadNum / PadDen
\*   scale  = (img_size - 2 * pad) / max_range
\*   offset = (img_size - rng * scale) / 2 - mn * scale
ProjDen == 2 * PadDen * max_range

ScaleNum == 2 * img_size * (PadDen - 2 * PadNum)

UncentredOffsetNum(k) ==
    2 * PadDen * max_range * img_size - 2 * rng(k) * img_size * (PadDen - 2 * PadNum)
        - ColMin(pts2d, k) * ScaleNum

OffsetNum(k) ==
    PadDen * max_range * img_size - rng(k) * img_size * (PadDen - 2 * PadNum)
        - ColMin(pts2d, k) * ScaleNum

\* return pts2d * scale + offset
ProjectAndNormalize ==
    [v \in DOMAIN vertices |->
        <<pts2d[v][1] * ScaleNum + OffsetNum(1), pts2d[v][2] * ScaleNum + OffsetNum(2)>>]

-----------------------------------------------------------------------------
(* rasterize *)

\* the placeholder of an uncovered pixel: np.nan, written 0/0
NaN == <<0, 0>>

Pixels == (0..(img_size - 1)) \X (0..(img_size - 1))

RECURSIVE GCD(_, _)
GCD(a, b) == IF b = 0 THEN a ELSE GCD(b, a % b)

\* v0, v1, v2 = verts2d[face[0]], verts2d[face[1]], verts2d[face[2]]: vertex
\* k (0-based) of face f, coordinate c, as a numerator over den
V(f, k, c) == verts2d[faces[f][k + 1]][c]

FloorDiv(n, d) == n \div d

CeilDiv(n, d) == -((-n) \div d)

Min3(a, b, c) == Min2(a, Min2(b, c))

Max3(a, b, c) == Max2(a, Max2(b, c))

\* x0 = max(0, int(np.floor(min(...)))); x1 = min(img_size - 1, int(np.ceil(max(...))))
\* (c = 1 gives x0, x1 and c = 2 gives y0, y1)
BoxLo(f, c) == Max2(0, FloorDiv(Min3(V(f, 0, c), V(f, 1, c), V(f, 2, c)), den))

BoxHi(f, c) == Min2(img_size - 1, CeilDiv(Max3(V(f, 0, c), V(f, 1, c), V(f, 2, c)), den))

\* if x0 > x1 or y0 > y1: continue
BoxEmpty(f) == BoxLo(f, 1) > BoxHi(f, 1) \/ BoxLo(f, 2) > BoxHi(f, 2)

InBox(f, p) ==
    /\ BoxLo(f, 1) <= p[1] /\ p[1] <= BoxHi(f, 1)
    /\ BoxLo(f, 2) <= p[2] /\ p[2] <= BoxHi(f, 2)

\* Barycentric numerators are taken over (2 * den)^2: a vertex coordinate is
\* 2 * V over 2 * den and the pixel centre p + 0.5 is (2 * p + 1) * den.
G(p, c) == (2 * p[c] + 1) * den

\* denom = (v1[1] - v2[1]) * (v0[0] - v2[0]) + (v2[0] - v1[0]) * (v0[1] - v2[1])
denom(f) ==
    (2 * V(f, 1, 2) - 2 * V(f, 2, 2)) * (2 * V(f, 0, 1) - 2 * V(f, 2, 1))
        + (2 * V(f, 2, 1) - 2 * V(f, 1, 1)) * (2 * V(f, 0, 2) - 2 * V(f, 2, 2))

NeverDegenerate(f) == FALSE

\* if abs(denom) < 1e-10: continue
\* (a non-zero denom is at least 1 / den^2 in magnitude, far above 1e-10)
Degenerate(f) == denom(f) = 0

\* w0 * denom
W0Num(f, p) ==
    (2 * V(f, 1, 2) - 2 * V(f, 2, 2)) * (G(p, 1) - 2 * V(f, 2, 1))
        + (2 * V(f, 2, 1) - 2 * V(f, 1, 1)) * (G(p, 2) - 2 * V(f, 2, 2))

\* w1 * denom
W1Num(f, p) ==
    (2 * V(f, 2, 2) - 2 * V(f, 0, 2)) * (G(p, 1) - 2 * V(f, 2, 1))
        + (2 * V(f, 0, 1) - 2 * V(f, 2, 1)) * (G(p, 2) - 2 * V(f, 2, 2))

\* w2 = 1.0 - w0 - w1, times denom
W2Num(f, p) == denom(f) - W0Num(f, p) - W1Num(f, p)

\* n / d >= 0
NonNeg(n, d) == n = 0 \/ (n > 0 /\ d > 0) \/ (n < 0 /\ d < 0)

\* inside = (w0 >= 0) & (w1 >= 0) & (w2 >= 0)
Inside(f, p) ==
    /\ NonNeg(W0Num(f, p), denom(f))
    /\ NonNeg(W1Num(f, p), denom(f))
    /\ NonNeg(W2Num(f, p), denom(f))

\* np.clip(n / d, 0.0, 1.0), as a fraction in lowest terms
Clip(n, d) ==
    LET sn == IF d < 0 THEN -n ELSE n
        sd == IF d < 0 THEN -d ELSE d
    IN  IF sn <= 0 THEN <<0, 1>>
        ELSE IF sn >= sd THEN <<1, 1>>
        ELSE <<sn \div GCD(sn, sd), sd \div GCD(sn, sd)>>

\* u = w0 * uv0[0] + w1 * uv1[0] + w2 * uv2[0] (c = 1), v likewise (c = 2)
InterpNum(f, p, c) ==
    W0Num(f, p) * uvs[faces[f][1]][c] + W1Num(f, p) * uvs[faces[f][2]][c]
        + W2Num(f, p) * uvs[faces[f][3]][c]

ClippedUV(f, p) ==
    <<Clip(InterpNum(f, p, 1), denom(f)), Clip(InterpNum(f, p, 2), denom(f))>>

\* the pixels (py, px) face f writes; px = clip(int(gx - 0.5), 0, img_size - 1)
\* is the pixel's own column since the box is already clamped to the image
WrittenPixels(f) ==
    {p \in Pixels : ~BoxEmpty(f) /\ ~Degenerate(f) /\ InBox(f, p) /\ Inside(f, p)}

KeepFirstUV(f) ==
    [p \in Pixels |->
        IF p \in WrittenPixels(f) /\ ~coverage[p] THEN ClippedUV(f, p) ELSE uv_buf[p]]

\* uv_buf[py, px, 0] = np.clip(u, 0.0, 1.0); uv_buf[py, px, 1] = np.clip(v, 0.0, 1.0)
NewUV(f) ==
    [p \in Pixels |-> IF p \in WrittenPixels(f) THEN ClippedUV(f, p) ELSE uv_buf[p]]

OnlyThisFaceCoverage(f) == [p \in Pixels |-> p \in WrittenPixels(f)]

\* coverage[py, px] = True
NewCoverage(f) == [p \in Pixels |-> coverage[p] \/ p \in WrittenPixels(f)]

\* uv_buf = np.full(..., np.nan); coverage = np.zeros(..., dtype=bool)
RasterEntry ==
    /\ pc = "raster_entry"
    /\ uv_buf' = [p \in Pixels |-> <<NaN, NaN>>]
    /\ coverage' = [p \in Pixels |-> FALSE]
    /\ fi' = 1
    /\ pc' = "raster"
    /\ UNCHANGED <<vertices, faces, uvs, axis, img_size, verts2d, den>>
    /\ UNCHANGED symVars
    /\ UNCHANGED mainVars

\* one iteration of "for fi, face in enumerate(faces)"
RasterFace ==
    /\ pc = "raster"
    /\ fi <= Len(faces)
    /\ uv_buf' = NewUV(fi)
    /\ coverage' = NewCoverage(fi)
    /\ fi' = fi + 1
    /\ UNCHANGED <<pc, vertices, faces, uvs, axis, img_size, verts2d, den>>
    /\ UNCHANGED symVars
    /\ UNCHANGED mainVars

\* return uv_buf, coverage
RasterReturn ==
    /\ pc = "raster"
    /\ fi > Len(faces)
    /\ pc' = "raster_done"
    /\ UNCHANGED <<vertices, faces, uvs>>
    /\ UNCHANGED rasterVars
    /\ UNCHANGED symVars
    /\ UNCHANGED mainVars

(* rasterize on its own: any 2D vertices, inside the image or not *)

MaxRasterFaces == 3     \* faces of a mesh given to rasterize

RasterSize == 3

\* 2D vertices as numerators over 2: the corners and the centre of the
\* 3 x 3 image, and three points to the left of it
RasterVerts ==
    << <<0, 0>>, <<6, 0>>, <<0, 6>>, <<6, 6>>, <<3, 3>>, <<-4, -2>>, <<-6, 0>>, <<-4, 6>> >>

RasterUVs ==
    << <<0, 0>>, <<1, 0>>, <<0, 1>>, <<1, 1>>, <<2, -1>>, <<0, 0>>, <<1, 1>>, <<0, 1>> >>

RasterFaceChoices ==
    { <<1, 2, 3>>, <<2, 4, 3>>, <<3, 2, 1>>, <<1, 2, 4>>, <<1, 2, 5>>,
      <<1, 5, 4>>, <<6, 2, 3>>, <<6, 7, 8>> }

InitRaster ==
    /\ pc = "raster_entry"
    /\ vertices = <<>>
    /\ uvs = RasterUVs
    /\ \E n \in 1..MaxRasterFaces : faces \in [1..n -> RasterFaceChoices]
    /\ axis = "front"
    /\ img_size = RasterSize
    /\ verts2d = RasterVerts
    /\ den = 2
    /\ fi = 0
    /\ uv_buf = <<>>
    /\ coverage = <<>>
    /\ SymIdle
    /\ MainIdle

NextRaster == RasterEntry \/ RasterFace \/ RasterReturn

SpecRaster == InitRaster /\ [][NextRaster]_vars

(* main, lines 357-360: project_and_normalize, then rasterize *)

MaxCoord == 2       \* largest x coordinate of a mesh vertex
MaxImg == 3         \* largest image size

PipePoints == (0..MaxCoord) \X (0..1) \X (0..1)

PipeUVs == << <<0, 0>>, <<1, 0>>, <<0, 1>> >>

PipeFaces == << <<1, 2, 3>>, <<3, 2, 1>> >>

InitPipe ==
    /\ pc = "project"
    /\ vertices \in [1..3 -> PipePoints]
    /\ uvs = PipeUVs
    /\ faces = PipeFaces
    /\ axis \in {"front", "side", "top"}
    /\ img_size \in 1..MaxImg
    /\ verts2d = <<>>
    /\ den = 1
    /\ fi = 0
    /\ uv_buf = <<>>
    /\ coverage = <<>>
    /\ SymIdle
    /\ MainIdle

\* verts2d = project_and_normalize(mesh.vertices, args.axis, args.size)
Project ==
    /\ pc = "project"
    /\ verts2d' = ProjectAndNormalize
    /\ den' = ProjDen
    /\ pc' = "raster_entry"
    /\ UNCHANGED <<vertices, faces, uvs, axis, img_size, fi, uv_buf, coverage>>
    /\ UNCHANGED symVars
    /\ UNCHANGED mainVars

NextPipe == Project \/ RasterEntry \/ RasterFace \/ RasterReturn

SpecPipe == InitPipe /\ [][NextPipe]_vars

-----------------------------------------------------------------------------
(* main: the path check, the load, and the three output files.  The stages  *)
(* between the load and the first save compute in memory and write no file. *)

\* proj_path, uvmap_path, json_path: named from the stem and the axis
proj_path == <<"projection", axis>>

uvmap_path == <<"uvmap", axis>>

json_path == <<"mapping", axis>>

InitMain ==
    /\ pc = "main_check"
    /\ path_exists \in BOOLEAN
    /\ load_ok \in BOOLEAN
    /\ path_exists \/ ~load_ok          \* a missing file cannot be loaded
    /\ axis \in {"front", "side", "top"}
    /\ symmetry \in {"yz", "xz", "xy", "none"}
    /\ written = {}
    /\ exit_status = "running"
    /\ reported = FALSE
    /\ vertices = <<>> /\ faces = <<>> /\ uvs = <<>>
    /\ img_size = 0 /\ verts2d = <<>> /\ den = 1 /\ fi = 0
    /\ uv_buf = <<>> /\ coverage = <<>>
    /\ SymIdle

MainStep(from, to) ==
    /\ pc = from
    /\ pc' = to
    /\ UNCHANGED <<vertices, faces, uvs, path_exists, load_ok, symmetry>>
    /\ UNCHANGED rasterVars
    /\ UNCHANGED symVars

MainCheckPathNoExit ==
    /\ MainStep("main_check", "main_mkdir")
    /\ reported' = (reported \/ ~path_exists)
    /\ UNCHANGED <<written, exit_status>>

\* if not os.path.exists(args.model): print(...); sys.exit(1)
MainCheckPath ==
    /\ MainStep("main_check", IF path_exists THEN "main_mkdir" ELSE "exited")
    /\ reported' = (reported \/ ~path_exists)
    /\ exit_status' = IF path_exists THEN exit_status ELSE "nonzero"
    /\ UNCHANGED written

\* os.makedirs(out_dir, exist_ok=True) and the three path names
MainMakeDirs ==
    /\ MainStep("main_mkdir", "main_load")
    /\ UNCHANGED <<written, exit_status, reported>>

\* mesh = load_glb(args.model): returns, or raises out of main
MainLoad ==
    /\ MainStep("main_load", IF load_ok THEN "main_compute" ELSE "exited")
    /\ reported' = (reported \/ ~load_ok)
    /\ exit_status' = IF load_ok THEN exit_status ELSE "nonzero"
    /\ UNCHANGED written

\* extract_uvs, project_and_normalize, rasterize
MainCompute ==
    /\ MainStep("main_compute", "main_save_proj")
    /\ UNCHANGED <<written, exit_status, reported>>

\* proj_img.save(proj_path)
MainSaveProjection ==
    /\ MainStep("main_save_proj", "main_save_uvmap")
    /\ written' = written \cup {proj_path}
    /\ UNCHANGED <<exit_status, reported>>

\* uvmap_img.save(uvmap_path)
MainSaveUVMap ==
    /\ MainStep("main_save_uvmap", "main_sym")
    /\ written' = written \cup {uvmap_path}
    /\ UNCHANGED <<exit_status, reported>>

\* if args.symmetry != "none": sym_pairs = find_symmetric_uv_pairs(...)
MainSymmetry ==
    /\ MainStep("main_sym", "main_save_json")
    /\ UNCHANGED <<written, exit_status, reported>>

\* json.dump(meta, f), then main returns
MainSaveJSON ==
    /\ MainStep("main_save_json", "exited")
    /\ written' = written \cup {json_path}
    /\ exit_status' = "zero"
    /\ UNCHANGED reported

NextMain ==
    \/ MainCheckPath \/ MainMakeDirs \/ MainLoad \/ MainCompute
    \/ MainSaveProjection \/ MainSaveUVMap \/ MainSymmetry \/ MainSaveJSON

SpecMain == InitMain /\ [][NextMain]_vars

\* the positions of main reached only after the path check and the load
AfterLoad ==
    {"main_compute", "main_save_proj", "main_save_uvmap", "main_sym", "main_save_json", "exited"}

\* C5: with a missing asset path the run goes from the path check straight to
\* a reported non-zero exit with no output file written; and in every run a
\* file is written only after the path check and the load have succeeded.
C5_NoOutputBeforeLoad ==
    /\ ~path_exists =>
          /\ written = {}
          /\ pc \in {"main_check", "exited"}
          /\ (pc = "exited" => exit_status = "nonzero" /\ reported)
    /\ written # {} => (path_exists /\ load_ok /\ pc \in AfterLoad)
    /\ (pc = "exited" /\ ~load_ok) => (written = {} /\ exit_status = "nonzero" /\ reported)

C5_Witness ==
    /\ ~path_exists
    /\ pc = "exited"
    /\ exit_status = "nonzero"
    /\ reported
    /\ written = {}

-----------------------------------------------------------------------------
(* Properties of rasterize and project_and_normalize *)

Rasterizing == pc \in {"raster", "raster_done"}

\* twice the signed area of the triangle a, b, q (all over the same denominator)
Orient(a, b, q) == (b[1] - a[1]) * (q[2] - a[2]) - (b[2] - a[2]) * (q[1] - a[1])

\* vertex k of face f and the centre of pixel p, as numerators over 2 * den
Corner(f, k) == <<2 * verts2d[faces[f][k]][1], 2 * verts2d[faces[f][k]][2]>>

Centre(p) == <<(2 * p[1] + 1) * den, (2 * p[2] + 1) * den>>

NonDegenerateFace(f) == Orient(Corner(f, 1), Corner(f, 2), Corner(f, 3)) # 0

\* the closed triangle of face f contains the centre of pixel p
FootprintContains(f, p) ==
    LET o1 == Orient(Corner(f, 1), Corner(f, 2), Centre(p))
        o2 == Orient(Corner(f, 2), Corner(f, 3), Centre(p))
        o3 == Orient(Corner(f, 3), Corner(f, 1), Centre(p))
    IN  \/ (o1 >= 0 /\ o2 >= 0 /\ o3 >= 0)
        \/ (o1 <= 0 /\ o2 <= 0 /\ o3 <= 0)

\* the processed non-degenerate faces whose footprint contains pixel p's centre
Covering(p) ==
    {f \in 1..(fi - 1) : NonDegenerateFace(f) /\ FootprintContains(f, p)}

LastOf(S) == CHOOSE f \in S : \A g \in S : g <= f

\* C3: a pixel is covered exactly when some processed non-degenerate face
\* contains its centre, and it then holds the clamped interpolated UV of the
\* last such face in face order.
C3_LastWriteWins ==
    Rasterizing =>
        \A p \in Pixels :
            /\ coverage[p] <=> Covering(p) # {}
            /\ coverage[p] => uv_buf[p] = ClippedUV(LastOf(Covering(p)), p)

C3_Witness ==
    /\ pc = "raster_done"
    /\ \E p \in Pixels :
          /\ Cardinality(Covering(p)) >= 2
          /\ \E f \in Covering(p) : ClippedUV(f, p) # uv_buf[p]
          /\ \E q \in Pixels : ~coverage[q]

Defined(p) == uv_buf[p][1] # NaN /\ uv_buf[p][2] # NaN

Placeholder(p) == uv_buf[p][1] = NaN /\ uv_buf[p][2] = NaN

\* C4: in every state of rasterize a pixel's UV is defined iff its coverage
\* flag is set, and a set flag is never cleared.
C4_DefinedIffCovered ==
    /\ [](Rasterizing =>
            \A p \in Pixels : (Defined(p) <=> coverage[p]) /\ (Placeholder(p) <=> ~coverage[p]))
    /\ [][Rasterizing => \A p \in Pixels : coverage[p] => coverage'[p]]_vars

C4_Witness ==
    /\ pc = "raster"
    /\ fi = 3
    /\ \E p \in Pixels : coverage[p] /\ p \notin WrittenPixels(2)
    /\ \E p \in Pixels : ~coverage[p]
    /\ WrittenPixels(2) # {}

\* the projected 2D vertices all lie on one line (or coincide)
Collinear ==
    \A a, b, c \in DOMAIN verts2d : Orient(verts2d[a], verts2d[b], verts2d[c]) = 0

CoveredCount == Cardinality({p \in Pixels : coverage[p]})

\* C6: for a mesh whose projected vertices are collinear the projection divides
\* by a positive range, every face is skipped leaving both buffers unchanged,
\* and no pixel is covered.
C6_CollinearCoversNothing ==
    [][ (pc # "project" /\ Collinear) =>
          /\ den > 0
          /\ (pc = "raster" =>
                /\ pc' \in {"raster", "raster_done"}
                /\ uv_buf' = uv_buf
                /\ coverage' = coverage
                /\ CoveredCount = 0
                /\ \A p \in Pixels : Placeholder(p))
          /\ (pc' = "raster_done" => CoveredCount = 0) ]_vars

C6_Witness ==
    /\ pc = "raster_done"
    /\ Collinear
    /\ \E a, b \in DOMAIN verts2d : verts2d[a] # verts2d[b]
    /\ \E a, b \in DOMAIN verts2d : verts2d[a][1] # verts2d[b][1] /\ verts2d[a][2] # verts2d[b][2]
    /\ CoveredCount = 0

Projected == pc \in {"raster_entry", "raster", "raster_done"} /\ vertices # <<>>

NonDegenerateSet == Max2(rng(1), rng(2)) > 0

\* C7: for a non-degenerate vertex set every projected coordinate lies in
\* [pad, size - pad] with pad = size * 0.06, and the projected bounding box
\* is centred in the image on both axes.
C7_WithinPaddingAndCentred ==
    (Projected /\ NonDegenerateSet) =>
        \A k \in 1..2 :
            /\ \A v \in DOMAIN verts2d :
                  /\ PadNum * img_size * den <= PadDen * verts2d[v][k]
                  /\ PadDen * verts2d[v][k] <= (PadDen - PadNum) * img_size * den
            /\ ColMin(verts2d, k) + ColMax(verts2d, k) = img_size * den

C7_Witness ==
    /\ pc = "raster_entry"
    /\ vertices # <<>>
    /\ rng(1) = 2 /\ rng(2) = 1
    /\ img_size = 3
    /\ \E v \in DOMAIN verts2d : PadDen * verts2d[v][1] = PadNum * img_size * den
    /\ \A v \in DOMAIN verts2d : PadDen * verts2d[v][2] > PadNum * img_size * den

-----------------------------------------------------------------------------
(* Properties of find_symmetric_uv_pairs *)

FaceIds == 1..Len(faces)

Unmatched == {f \in FaceIds : ~used[f]}


\* C1: the emitted face pairs form a matching: no face appears in two pairs
\* (as source or as target) and no face is paired with itself.
C1_Matching ==
    /\ \A k \in DOMAIN matched : matched[k][1] # matched[k][2]
    /\ \A k, l \in DOMAIN matched :
          k # l => {matched[k][1], matched[k][2]} \cap {matched[l][1], matched[l][2]} = {}
    /\ Len(pairs) = 3 * Len(matched)

C1_Witness ==
    /\ pc = "sym_done"
    /\ Len(matched) = 2
    /\ Unmatched = {}

\* the vertex positions of face f, and their mirror images
FacePoints(f) == {vertices[faces[f][k]] : k \in 1..3}

MirrorPoints(f) == {Mirror(vertices[faces[f][k]], SYMMETRY_FLIP(sym_axis)) : k \in 1..3}

\* reflecting any face across the plane gives a face of the mesh
ExactlySymmetric == \A a \in FaceIds : \E b \in FaceIds : MirrorPoints(a) = FacePoints(b)

AllMatched ==
    /\ \A f \in FaceIds : used[f]
    /\ Len(pairs) = 3 * (Len(faces) \div 2)

\* C2 as stated: for an exactly symmetric mesh and a tolerance above zero,
\* every face is used on return and the result has 3 * (faces / 2) entries.
C2_Original ==
    (pc = "sym_done" /\ tol > 0 /\ ExactlySymmetric) => AllMatched

\* the faces of S split into disjoint pairs of two different faces, the
\* centroid of each being exactly the mirror centroid of the other
RECURSIVE CanPair(_)
CanPair(S) ==
    IF S = {} THEN TRUE
    ELSE LET a == CHOOSE x \in S : \A y \in S : x <= y
         IN  \E b \in S \ {a} :
                /\ centroids[b] = mirror[a]
                /\ CanPair(S \ {a, b})

\* C2 amended: when the faces split into mirror pairs of two different faces
\* each, and the tolerance is above zero, every face is used on return and
\* the result has 3 * (faces / 2) entries.
C2_MirrorPairsAllMatched ==
    (pc = "sym_done" /\ tol > 0 /\ CanPair(FaceIds)) => AllMatched

C2_Witness ==
    /\ pc = "sym_done"
    /\ tol > 0
    /\ Len(faces) = 4
    /\ CanPair(FaceIds)
    /\ \E f \in FaceIds : centroids[f] # mirror[f]
    /\ AllMatched

\* the unused faces other than f, and the least mirror distance from f to them
Candidates(f) == {k \in FaceIds : ~used[k] /\ k # f}

IsNearest(f, j) ==
    /\ j \in Candidates(f)
    /\ \A k \in Candidates(f) : MirrorDist(f, j) <= MirrorDist(f, k)

\* C8: a visit of an unused face f pairs it with a nearest unused other face
\* when that face is within the tolerance, and otherwise changes nothing.
C8_VisitPairsNearest ==
    [][ (pc = "visit" /\ bi <= Len(dist) /\ ~used[i + bi]) =>
          LET f == i + bi
          IN  IF \E k \in Candidates(f) : MirrorDist(f, k) <= tol
              THEN /\ Len(matched') = Len(matched) + 1
                   /\ LET p == matched'[Len(matched')]
                      IN  /\ p[1] = f
                          /\ IsNearest(f, p[2])
                          /\ MirrorDist(f, p[2]) <= tol
                          /\ used' = [used EXCEPT ![f] = TRUE, ![p[2]] = TRUE]
                          /\ pairs' = pairs \o UVEntries(f, p[2])
              ELSE /\ used' = used
                   /\ pairs' = pairs
                   /\ matched' = matched ]_vars

C8_Witness ==
    /\ pc = "visit"
    /\ Len(matched) = 1
    /\ \E f \in FaceIds : f < i + bi /\ f < matched[1][1] /\ ~used[f]
    /\ \E f \in FaceIds : f < i + bi /\ f > matched[1][1] /\ ~used[f] /\ Candidates(f) # {}

\* C9: on return no two distinct unmatched faces are within the tolerance of
\* each other's mirror image, and every pair has source index < target index.
C9_Maximal ==
    pc = "sym_done" =>
        /\ \A a, b \in Unmatched : a # b => MirrorDist(a, b) > tol
        /\ \A k \in DOMAIN matched : matched[k][1] < matched[k][2]

C9_Witness ==
    /\ pc = "sym_done"
    /\ Cardinality(Unmatched) >= 2
    /\ Len(matched) >= 1
    /\ \E a \in Unmatched : \E k \in DOMAIN matched : MirrorDist(a, matched[k][2]) <= tol

\* the unbatched greedy pass: faces in index order, used marks read at the
\* moment each face is visited, ties going to the lowest index
RECURSIVE GreedyFrom(_, _, _)
GreedyFrom(f, u, acc) ==
    IF f > Len(faces) THEN acc
    ELSE LET cand == {k \in FaceIds : ~u[k] /\ k # f}
             best == {k \in cand : \A l \in cand : MirrorDist(f, k) <= MirrorDist(f, l)}
         IN  IF u[f] \/ cand = {} THEN GreedyFrom(f + 1, u, acc)
             ELSE LET j == CHOOSE k \in best : \A l \in best : k <= l
                  IN  IF MirrorDist(f, j) > tol THEN GreedyFrom(f + 1, u, acc)
                      ELSE GreedyFrom(f + 1, [u EXCEPT ![f] = TRUE, ![j] = TRUE],
                                      acc \o UVEntries(f, j))

\* C10: for every batch size the returned list is that of the unbatched pass.
C10_BatchingIrrelevant ==
    pc = "sym_done" => pairs = GreedyFrom(1, [f \in FaceIds |-> FALSE], <<>>)

C10_Witness ==
    /\ pc = "sym_done"
    /\ chunk > 1
    /\ chunk < Len(faces)
    /\ Len(matched) = 2
    /\ matched[1][2] > chunk
    /\ matched[2][2] > chunk

====
